---- MODULE Spec2Model ----
(***************************************************************************)
(* TrackForge backend: credential rotation / revocation (domains/auth,     *)
(* core/security, core/deps) and the idempotent-write coordinator          *)
(* (core/idempotency, domains/workouts/service), with the background       *)
(* cleanup loop (core/tasks).                                              *)
(*                                                                         *)
(* Time is counted in ticks; TicksPerSecond ticks make one second.  The    *)
(* database keeps datetimes with sub-second resolution (ticks) while the   *)
(* JWT library stores exp/iat/nbf as whole seconds.                        *)
(***************************************************************************)
EXTENDS Integers, Sequences, FiniteSets, TLC

\* ------------------------------------------------------------------ bounds
MaxTime == 4
MaxIds == 3
Procs == {1, 2}
Users == {"u1"}
\* the accounts of the runs with more than one account
Accounts == {"u1", "u2"}

\* --------------------------------------------------- configuration, scaled
\* Every interval of the program is a whole number of seconds; the scale keeps
\* that and shortens it so that expiry is reached within MaxTime.
TicksPerSecond == 2
\* settings.access_token_expire_minutes (15 minutes), in scaled seconds
access_token_expire_minutes == 1
\* settings.refresh_token_expire_days (7 days), in scaled seconds
refresh_token_expire_days == 1
\* logout_user's fallback timedelta(minutes=15), in scaled seconds
logout_fallback_minutes == 1
\* IDEMPOTENCY_KEY_TTL (24 hours), in scaled seconds
IDEMPOTENCY_KEY_TTL == 1
timedelta(seconds) == seconds * TicksPerSecond

\* idempotency keys clients send, the status codes the write handlers store
\* (201 create_workout_session, 200 update_workout_session) and the JSON
\* bodies they return ("{}" is the empty object)
IdemUsers == {"u1"}
\* the users of the requests that share one key string
ScopeUsers == {"u1", "u2"}
Keys == {"k1"}
StatusCodes == {200, 201}
Bodies == {"{}", "{id:x}"}

secret_key == "change-me-in-production-use-openssl-rand-hex-32"
access_token_secret_key == "change-me-in-production-use-openssl-rand-hex-32"
refresh_token_secret_key == "change-me-in-production-use-openssl-rand-hex-32"
token_issuer == "myapp.com"
token_audience == "myapp-api"

\* Settings() with no environment: the defaults of config.py
DefaultSettings ==
    [secret_key |-> secret_key,
     access_token_secret_key |-> access_token_secret_key,
     refresh_token_secret_key |-> refresh_token_secret_key,
     access_token_expire_minutes |-> access_token_expire_minutes]

\* Settings() with the secrets taken from the environment: three different
\* values, or SECRET_KEY equal to one of the two token secrets
Configurations ==
    {DefaultSettings} \cup
    {[secret_key |-> k, access_token_secret_key |-> "env-access-secret",
      refresh_token_secret_key |-> "env-refresh-secret",
      access_token_expire_minutes |-> access_token_expire_minutes] :
        k \in {"env-secret", "env-access-secret", "env-refresh-secret"}}

\* Settings() with ACCESS_TOKEN_EXPIRE_MINUTES taken from the environment: the
\* default, or twice the default
LifetimeConfigurations ==
    {[DefaultSettings EXCEPT !.access_token_expire_minutes = m] :
        m \in {access_token_expire_minutes, 2 * access_token_expire_minutes}}

\* subjects handed to the codec directly
Subjects == {"u1", "u2"}

None == <<>>
Some(x) == <<x>>
Val(o) == o[1]

VARIABLES
    now,                    \* datetime.now(UTC), in ticks
    settings,               \* core.config.settings: the signing secrets and
                            \* the lifetime of access tokens
    decoded,                \* what the last call of decode_token returned
    jpc,                    \* position of the loop of cleanup_task
    jerr,                   \* the last pass of the loop logged an error
    lpc,                    \* position of each call of logout_user
    lreq,                   \* what a call of logout_user has pending in its
                            \* session: the row it added, the rows it revoked,
                            \* whether it swallowed a decoding failure
    users,                  \* users table: id -> "new" | "active" | "deleted"
    refresh_tokens,         \* refresh_tokens table: set of rows
    revoked_access_tokens,  \* revoked_access_tokens table: set of rows
    issued,                 \* raw tokens handed to clients so far
    nextId,                 \* uuid4() source: next unused identifier
    pc,                     \* position of each request flow
    req,                    \* the raw token a suspended refresh carries
    last,                   \* what the request that finished last returned
    rotated,                \* history: <<old jti, new jti>> of successful rotations
    idempotency_keys,       \* idempotency_keys table: set of rows
    ipc,                    \* position of each write request flow
    ireq,                   \* <<user, key>> of the write request of each flow
    ires,                   \* what start_idempotency_request returned to each flow
    stored,                 \* history: the response last handed to
                            \* store_idempotency_response for the record of a key
    hist                    \* history of the current call of each flow: retry, it
                            \* deleted a failed record; rival, another flow
                            \* inserted the record of the key while it was
                            \* between its read and its insert; seen, what
                            \* its re-read after a failed insert returned;
                            \* expired, its read deleted a record past the TTL

authvars == <<users, refresh_tokens, revoked_access_tokens, issued, nextId,
              pc, req, last, rotated>>
idemvars == <<idempotency_keys, ipc, ireq, ires, stored, hist>>
cfgvars == <<settings, decoded>>
outvars == <<lpc, lreq>>
janvars == <<jpc, jerr>>
vars == <<now, cfgvars, outvars, janvars, authvars, idemvars>>

\* ------------------------------------------------------------ credential codec
\* jose stores datetime claims as whole seconds (timegm of the time tuple)
timegm(t) == t \div TicksPerSecond
\* datetime.fromtimestamp(exp, UTC)
fromtimestamp(s) == s * TicksPerSecond

GarbageToken ==
    [wellformed |-> FALSE, type |-> "", sub |-> "", family |-> None, jti |-> 0,
     exp |-> 0, nbf |-> 0, iss |-> "", aud |-> "", key |-> ""]

create_access_token(subject, id, t) ==
    [wellformed |-> TRUE, type |-> "access", sub |-> subject, family |-> None,
     jti |-> id, exp |-> timegm(t + timedelta(settings.access_token_expire_minutes)), nbf |-> timegm(t),
     iss |-> token_issuer, aud |-> token_audience,
     key |-> settings.access_token_secret_key]

\* family = family_id or str(uuid4()): the family create_refresh_token returns
returned_family_fixed(family_id, id) == IF family_id # None THEN family_id ELSE Some(0)
returned_family(family_id, id) == IF family_id # None THEN family_id ELSE Some(id)

create_refresh_token(subject, family_id, id, t) ==
    [wellformed |-> TRUE, type |-> "refresh", sub |-> subject,
     family |-> returned_family(family_id, id),
     jti |-> id, exp |-> timegm(t + timedelta(refresh_token_expire_days)), nbf |-> timegm(t),
     iss |-> token_issuer, aud |-> token_audience,
     key |-> settings.refresh_token_secret_key]

\* TRUE iff jwt.decode returns the payload (otherwise UnauthorizedError)
decode_token(token, t) ==
    /\ token.wellformed
    /\ token.key = settings.secret_key
    /\ token.iss = token_issuer
    /\ token.aud = token_audience
    /\ ~(token.exp < timegm(t))
    /\ ~(token.nbf > timegm(t))

\* the payload jwt.decode returns
Payload(token) ==
    [sub |-> token.sub, type |-> token.type, family |-> token.family,
     jti |-> token.jti, exp |-> token.exp, nbf |-> token.nbf,
     iss |-> token.iss, aud |-> token.aud]

\* a token made outside the program by a party that holds the key
Forge(key, type, subject, t) ==
    [wellformed |-> TRUE, type |-> type, sub |-> subject,
     family |-> IF type = "refresh" THEN Some(0) ELSE None, jti |-> 0,
     exp |-> timegm(t) + 1, nbf |-> timegm(t),
     iss |-> token_issuer, aud |-> token_audience, key |-> key]

hash_token(token) == <<"sha256", token>>

\* ------------------------------------------------------------ credential store
\* the expire datetime create_refresh_token returns next to the token
refresh_exp(t) == t + timedelta(refresh_token_expire_days)

RefreshToken(user_id, token, expires_at) ==
    [user_id |-> user_id, token_hash |-> hash_token(token),
     family_id |-> token.family, expires_at |-> expires_at, revoked_at |-> None]

is_expired_never(row, t) == FALSE
is_expired(row, t) == t > row.expires_at
is_revoked(row) == row.revoked_at # None

FindByHash(rows, h) == {r \in rows : r.token_hash = h}

\* the session of one request; core/database.py decides what becomes of the
\* writes a request made when it ends
get_db(before, after, raised) == after

revoke_nothing(rows, family_id, t) == rows
revoke_token_family(rows, family_id, t) ==
    {IF r.family_id = family_id /\ r.revoked_at = None
        THEN [r EXCEPT !.revoked_at = Some(t)] ELSE r : r \in rows}

RevokedAccessToken(jti, expires_at) == [jti |-> jti, expires_at |-> expires_at]

is_access_token_revoked(rows, jti) == \E r \in rows : r.jti = jti

\* logout_user, the access half (lines 186-202); expires_at is None or Some(t)
LogoutAccess(rows, access_jti, expires_at, t) ==
    IF access_jti = None THEN rows
    ELSE IF \E r \in rows : r.jti = Val(access_jti) THEN rows
    ELSE rows \cup {RevokedAccessToken(Val(access_jti),
            IF expires_at = None THEN t + timedelta(logout_fallback_minutes)
            ELSE Val(expires_at))}

\* logout_user, the refresh half (lines 204-212); refresh_token is None or Some(token)
LogoutRefresh(rows, refresh_token, t) ==
    IF refresh_token = None THEN rows
    ELSE IF ~decode_token(Val(refresh_token), t) THEN rows
    ELSE IF Val(refresh_token).family = None THEN rows
    ELSE revoke_token_family(rows, Val(refresh_token).family, t)

cleanup_expired_revoked_tokens(rows, t) == {r \in rows : ~(r.expires_at < t)}

cleanup_expired_refresh_tokens(rows, t) == {r \in rows : ~(r.expires_at < t)}

\* get_current_user_id: TRUE iff the bearer token is accepted
get_current_user_id(token, t) ==
    /\ decode_token(token, t)
    /\ token.type = "access"
    /\ token.sub # ""

\* ------------------------------------------------------ idempotency coordinator
\* f"{user_id}:{key}" hashed
generate_idempotency_hash_key_only(user_id, key) == <<"sha256", key>>
generate_idempotency_hash(user_id, key) == <<"sha256", user_id \o ":" \o key>>

IdempotencyKey(user_id, key, t) ==
    [key |-> generate_idempotency_hash(user_id, key), user_id |-> user_id,
     status |-> "processing", response_status |-> None, response_body |-> None,
     created_at |-> t]

\* str(status_code) and int(response_status) for the codes of the model
str(status_code) == CASE status_code = 200 -> "200"
                      [] status_code = 201 -> "201"
                      [] status_code = 409 -> "409"
                      [] OTHER -> "0"
int(text) == CASE text = "200" -> 200
               [] text = "201" -> 201
               [] text = "409" -> 409
               [] OTHER -> 0

FindByKey(rows, user_id, key) ==
    {r \in rows : r.key = generate_idempotency_hash(user_id, key)}

\* get_idempotency_record: the record it returns (a set of at most one row) and
\* the table it leaves (a record past the TTL is deleted and not returned)
IsStale_never(r, t) == FALSE
IsStale_at_once(r, t) == t - r.created_at > 0
IsStale(r, t) == t - r.created_at > timedelta(IDEMPOTENCY_KEY_TTL)
get_idempotency_record(rows, user_id, key, t) ==
    [record |-> {r \in FindByKey(rows, user_id, key) : ~IsStale(r, t)},
     rows |-> rows \ {r \in FindByKey(rows, user_id, key) : IsStale(r, t)}]

\* a failed record is deleted before the new one is added (lines 85-87)
keep_failed(rows, record) == rows
delete_failed(rows, record) == rows \ {r \in record : r.status = "failed"}

\* the flush of the new record violates the primary key (lines 89-100)
flush_never_fails(rows, row) == FALSE
flush_fails(rows, row) == \E r \in rows : r.key = row.key

NoHistory == [retry |-> FALSE, rival |-> FALSE, seen |-> "none", expired |-> FALSE]

\* the tuple start_idempotency_request returns
NoResponse == [proceed |-> FALSE, status |-> 0, body |-> ""]
Proceed == [proceed |-> TRUE, status |-> 0, body |-> ""]
Conflict(message) == [proceed |-> FALSE, status |-> 409, body |-> message]
CachedResponse(r) ==
    [proceed |-> FALSE,
     status |-> IF r.response_status = None \/ r.response_status = Some("")
                  THEN 200 ELSE int(Val(r.response_status)),
     body |-> IF r.response_body = None THEN "{}" ELSE Val(r.response_body)]

store_status_only(rows, user_id, key, status_code, response_body) ==
    {IF r.key = generate_idempotency_hash(user_id, key)
        THEN [r EXCEPT !.status = "completed"] ELSE r : r \in rows}

store_idempotency_response(rows, user_id, key, status_code, response_body) ==
    {IF r.key = generate_idempotency_hash(user_id, key)
        THEN [r EXCEPT !.status = "completed",
                       !.response_status = Some(str(status_code)),
                       !.response_body = Some(response_body)]
        ELSE r : r \in rows}

mark_idempotency_failed(rows, user_id, key) ==
    {IF r.key = generate_idempotency_hash(user_id, key)
        THEN [r EXCEPT !.status = "failed"] ELSE r : r \in rows}

cleanup_expired_idempotency_keys(rows, t) ==
    {r \in rows : ~(r.created_at < t - timedelta(IDEMPOTENCY_KEY_TTL))}

\* what create_workout_session / update_workout_session do to the table when
\* start_idempotency_request tells them not to proceed (lines 222-227)
OnNotProceed_fail(rows, user_id, key) == mark_idempotency_failed(rows, user_id, key)
OnNotProceed(rows, user_id, key) == rows

\* ------------------------------------------------------------------ results
\* core/errors.py: the exception refresh_tokens raises and the JSON response
\* api_error_handler makes of it
UnauthorizedError(message) ==
    [message |-> message, status_code |-> 401, code |-> "UNAUTHORIZED"]
api_error_handler(exc) ==
    [status_code |-> exc.status_code,
     content |-> [message |-> exc.message, code |-> exc.code]]

\* the code of the response generic_error_handler makes of an exception that
\* is no ApiError (status 500)
generic_error_handler == "INTERNAL_ERROR"

\* what the caller of the last finished request observed: the operation, its
\* outcome and the credential id it returned or was attached to
Idle == [op |-> "none", out |-> "none", id |-> 0]
Result(op, out, id) == [op |-> op, out |-> out, id |-> id]

\* the session of a call of logout_user holds nothing
NoPending == [jti |-> None, swallowed |-> FALSE, added |-> {}, revoked |-> {}, at |-> 0]

InitState ==
    /\ now = 0
    /\ decoded = None
    /\ jpc = "sleep"
    /\ jerr = FALSE
    /\ lpc = [p \in Procs |-> "idle"]
    /\ lreq = [p \in Procs |-> NoPending]
    /\ users = [u \in Accounts |-> "new"]
    /\ refresh_tokens = {}
    /\ revoked_access_tokens = {}
    /\ issued = {}
    /\ nextId = 1
    /\ pc = [p \in Procs |-> "idle"]
    /\ req = [p \in Procs |-> GarbageToken]
    /\ last = Idle
    /\ rotated = {}
    /\ idempotency_keys = {}
    /\ ipc = [p \in Procs |-> "idle"]
    /\ ireq = [p \in Procs |-> <<"", "">>]
    /\ ires = [p \in Procs |-> NoResponse]
    /\ stored = [uk \in ScopeUsers \X Keys |-> None]
    /\ hist = [p \in Procs |-> NoHistory]

Init == settings = DefaultSettings /\ InitState

\* the program started with any of the configurations
InitCodec == settings \in Configurations /\ InitState

\* ------------------------------------------------------------------- actions
Tick ==
    /\ now < MaxTime
    /\ now' = now + 1
    /\ UNCHANGED <<cfgvars, outvars, janvars, authvars, idemvars>>

\* the token part shared by register_user (lines 51-62) and login_user (86-97)
IssuePair(u, op) ==
    LET access == create_access_token(u, nextId, now)
        refresh == create_refresh_token(u, None, nextId, now)
    IN  /\ refresh_tokens' = refresh_tokens \cup
               {RefreshToken(u, refresh, refresh_exp(now))}
        /\ issued' = issued \cup {access, refresh}
        /\ nextId' = nextId + 1
        /\ last' = Result(op, "ok", nextId)

register_user(u) ==
    /\ nextId <= MaxIds
    /\ users[u] = "new"
    /\ users' = [users EXCEPT ![u] = "active"]
    /\ IssuePair(u, "register")
    /\ UNCHANGED <<now, cfgvars, outvars, janvars, revoked_access_tokens, pc, req, rotated, idemvars>>

login_user(u) ==
    /\ nextId <= MaxIds
    /\ users[u] = "active"
    /\ IssuePair(u, "login")
    /\ UNCHANGED <<now, cfgvars, outvars, janvars, users, revoked_access_tokens, pc, req, rotated, idemvars>>

\* users.service.delete_user: the refresh tokens go with the user (cascade)
delete_user(u) ==
    /\ users[u] = "active"
    /\ users' = [users EXCEPT ![u] = "deleted"]
    /\ refresh_tokens' = {r \in refresh_tokens : r.user_id # u}
    /\ last' = Result("delete_user", "ok", 0)
    /\ UNCHANGED <<now, cfgvars, outvars, janvars, revoked_access_tokens, issued, nextId, pc, req, rotated, idemvars>>

\* the outcome of refresh_tokens at the look-up of the credential row
\* (lines 114-148); "found" is the outcome of reaching line 150
RefreshOutcome_lookup_first(rows, token, t) ==
    IF ~decode_token(token, t) THEN "Invalid refresh token"
    ELSE LET token_record == FindByHash(rows, hash_token(token)) IN
         IF token_record = {}
            THEN "Invalid refresh token - possible reuse detected"
         ELSE IF \E r \in token_record : is_revoked(r)
            THEN "Refresh token reuse detected"
         ELSE IF \E r \in token_record : is_expired(r, t)
            THEN "Refresh token expired"
         ELSE "found"
RefreshOutcome(rows, token, t) ==
    IF ~decode_token(token, t) THEN "Invalid refresh token"
    ELSE IF token.type # "refresh" THEN "Invalid token type"
    ELSE IF token.sub = "" \/ token.family = None THEN "Invalid refresh token"
    ELSE LET token_record == FindByHash(rows, hash_token(token)) IN
         IF token_record = {}
            THEN "Invalid refresh token - possible reuse detected"
         ELSE IF \E r \in token_record : is_revoked(r)
            THEN "Refresh token reuse detected"
         ELSE IF \E r \in token_record : is_expired(r, t)
            THEN "Refresh token expired"
         ELSE "found"

\* the branches of refresh_tokens that call revoke_token_family (lines 138, 144)
RevokesFamily(out) ==
    out \in {"Invalid refresh token - possible reuse detected",
             "Refresh token reuse detected"}

\* the jti of the token a stored row was made for
RowJti(r) == r.token_hash[2].jti

\* a request takes the lowest free flow
RefreshLookup(p, token) ==
    LET out == RefreshOutcome(refresh_tokens, token, now) IN
    /\ pc[p] = "idle"
    /\ \A q \in Procs : q < p => pc[q] # "idle"
    /\ IF out = "found"
         THEN /\ pc' = [pc EXCEPT ![p] = "rotate"]
              /\ req' = [req EXCEPT ![p] = token]
              /\ UNCHANGED <<refresh_tokens, last>>
       ELSE /\ last' = Result("refresh", out, 0)
            /\ refresh_tokens' =
                 IF RevokesFamily(out)
                   THEN get_db(refresh_tokens,
                          revoke_token_family(refresh_tokens, token.family, now), TRUE)
                 ELSE refresh_tokens
            /\ UNCHANGED <<pc, req>>
    /\ UNCHANGED <<now, cfgvars, outvars, janvars, users, revoked_access_tokens, issued, nextId, rotated, idemvars>>

\* refresh_tokens from the user look-up to the end (lines 150-175)
RotateRows_keep_old(rows, token, new_token, t) ==
    rows \cup {RefreshToken(token.sub, new_token, refresh_exp(t))}
RotateRows(rows, token, new_token, t) ==
    {IF r.token_hash = hash_token(token)
        THEN [r EXCEPT !.revoked_at = Some(t)] ELSE r : r \in rows}
    \cup {RefreshToken(token.sub, new_token, refresh_exp(t))}

\* "user and user.is_active" after the select of the user (lines 151-154)
user_is_active_always(user_id) == TRUE
user_is_active(user_id) == users[user_id] = "active"

RefreshRotate(p) ==
    LET token == req[p]
        new_access == create_access_token(token.sub, nextId, now)
        new_refresh == create_refresh_token(token.sub, token.family, nextId, now)
    IN  /\ pc[p] = "rotate"
        /\ nextId <= MaxIds
        /\ pc' = [pc EXCEPT ![p] = "idle"]
        /\ req' = [req EXCEPT ![p] = GarbageToken]
        /\ IF ~user_is_active(token.sub)
             THEN /\ last' = Result("refresh", "User not found or disabled", 0)
                  /\ UNCHANGED <<refresh_tokens, issued, nextId, rotated>>
           ELSE /\ refresh_tokens' = get_db(refresh_tokens,
                       RotateRows(refresh_tokens, token, new_refresh, now), FALSE)
                /\ issued' = issued \cup {new_access, new_refresh}
                /\ nextId' = nextId + 1
                /\ rotated' = rotated \cup {<<token.jti, nextId>>}
                /\ last' = Result("refresh", "ok", nextId)
        /\ UNCHANGED <<now, cfgvars, outvars, janvars, users, revoked_access_tokens, idemvars>>

\* a statement of refresh_tokens raises an error of the database driver
\* (lines 128-175 hold no try): the exception leaves refresh_tokens and the
\* router, the session writes nothing, generic_error_handler answers.
\* The select of the row, or the statements of revoke_token_family
RefreshLookupRaises(p, token) ==
    LET out == RefreshOutcome(refresh_tokens, token, now) IN
    /\ pc[p] = "idle"
    /\ \A q \in Procs : q < p => pc[q] # "idle"
    /\ out = "found" \/ RevokesFamily(out) \/ out = "Refresh token expired"
    /\ last' = Result("refresh", generic_error_handler, 0)
    /\ refresh_tokens' = get_db(refresh_tokens, refresh_tokens, TRUE)
    /\ UNCHANGED <<now, cfgvars, outvars, janvars, users, revoked_access_tokens, issued,
                   nextId, pc, req, rotated, idemvars>>

\* the select of the user, or the UPDATE / INSERT of the rotation when the
\* session flushes
RefreshRotateRaises(p) ==
    /\ pc[p] = "rotate"
    /\ pc' = [pc EXCEPT ![p] = "idle"]
    /\ req' = [req EXCEPT ![p] = GarbageToken]
    /\ last' = Result("refresh", generic_error_handler, 0)
    /\ refresh_tokens' = get_db(refresh_tokens, refresh_tokens, TRUE)
    /\ UNCHANGED <<now, cfgvars, outvars, janvars, users, revoked_access_tokens, issued,
                   nextId, rotated, idemvars>>

\* the tokens a caller can present to refresh: the tokens handed out, a string
\* that is no token, and validly signed refresh tokens that were never stored
Unstored ==
    {create_refresh_token(u, f, 0, now) :
        u \in Users, f \in {r.family_id : r \in refresh_tokens}}

RefreshIssued == {t \in issued : t.type = "refresh"}
AccessIssued == {t \in issued : t.type = "access"}

\* of the access tokens, which refresh_tokens all refuses alike, the newest
Presentable ==
    RefreshIssued \cup {GarbageToken} \cup Unstored
    \cup {t \in AccessIssued : t.jti = nextId - 1}

\* any endpoint behind CurrentUserId (deps.get_current_user_id)
Authenticate(token) ==
    /\ last' = IF get_current_user_id(token, now)
                 THEN Result("request", "ok", token.jti)
               ELSE Result("request", "Unauthorized", 0)
    /\ UNCHANGED <<now, cfgvars, outvars, janvars, users, refresh_tokens, revoked_access_tokens, issued,
                   nextId, pc, req, rotated, idemvars>>

\* POST /auth/logout (router.logout): the access credential of the request is
\* revoked; the router passes no refresh token
logout(token) ==
    /\ IF get_current_user_id(token, now)
         THEN /\ revoked_access_tokens' = LogoutAccess(revoked_access_tokens,
                      Some(token.jti), Some(fromtimestamp(token.exp)), now)
              /\ refresh_tokens' = LogoutRefresh(refresh_tokens, None, now)
              /\ last' = Result("logout", "ok", token.jti)
       ELSE /\ last' = Result("logout", "Unauthorized", 0)
            /\ UNCHANGED <<revoked_access_tokens, refresh_tokens>>
    /\ UNCHANGED <<now, cfgvars, outvars, janvars, users, issued, nextId, pc, req, rotated, idemvars>>

\* "if idempotency_key:" of create_workout_session / update_workout_session
\* (lines 219, 272, 281): None and the empty string are no key
NoKey == ""
has_key_always(idempotency_key) == TRUE
has_key(idempotency_key) == idempotency_key # NoKey

\* a request without a key goes straight to the handler (line 229)
BeginNoKey(p, u) ==
    /\ ipc[p] = "idle"
    /\ ireq' = [ireq EXCEPT ![p] = <<u, NoKey>>]
    /\ ires' = [ires EXCEPT ![p] = NoResponse]
    /\ ipc' = [ipc EXCEPT ![p] = "handler"]
    /\ hist' = [hist EXCEPT ![p] = NoHistory]
    /\ UNCHANGED <<now, cfgvars, outvars, janvars, authvars, idempotency_keys, stored>>

\* start_idempotency_request up to the first flush of the new record (lines
\* 74-97), called by create_workout_session / update_workout_session
BeginRead(p, u, k) ==
    LET got == get_idempotency_record(idempotency_keys, u, k, now) IN
    /\ ipc[p] = "idle"
    /\ ireq' = [ireq EXCEPT ![p] = <<u, k>>]
    /\ IF \E r \in got.record : r.status = "completed"
         THEN /\ ires' = [ires EXCEPT ![p] =
                    CachedResponse(CHOOSE r \in got.record : TRUE)]
              /\ idempotency_keys' = OnNotProceed(got.rows, u, k)
              /\ ipc' = ipc
       ELSE IF \E r \in got.record : r.status = "processing"
         THEN /\ ires' = [ires EXCEPT ![p] = Conflict("Request already in progress")]
              /\ idempotency_keys' = OnNotProceed(got.rows, u, k)
              /\ ipc' = ipc
       ELSE /\ idempotency_keys' = delete_failed(got.rows, got.record)
            /\ ipc' = [ipc EXCEPT ![p] = "insert"]
            /\ ires' = [ires EXCEPT ![p] = NoResponse]
    /\ hist' = [hist EXCEPT ![p] =
                  [retry |-> \E r \in got.record : r.status = "failed",
                   rival |-> FALSE, seen |-> "none",
                   expired |-> got.rows # idempotency_keys]]
    /\ UNCHANGED <<now, cfgvars, outvars, janvars, authvars, stored>>

\* what start_idempotency_request returns after the re-read that follows a
\* failed insert (lines 104-107); record is a set of at most one row
LoserResponse_retry(record) ==
    IF \E r \in record : r.status = "completed"
      THEN CachedResponse(CHOOSE r \in record : TRUE)
    ELSE IF \E r \in record : r.status = "failed" THEN Proceed
    ELSE Conflict("Request already in progress or failed")
LoserResponse(record) ==
    IF \E r \in record : r.status = "completed"
      THEN CachedResponse(CHOOSE r \in record : TRUE)
    ELSE Conflict("Request already in progress or failed")

\* create_workout_session / update_workout_session up to the first suspension
\* (lines 219-229); k is a key of Keys or NoKey
create_workout_session(p, u, k) ==
    IF has_key(k) THEN BeginRead(p, u, k) ELSE BeginNoKey(p, u)

\* the flush of the new record and, when it fails, the re-read (lines 98-109)
BeginInsert(p) ==
    LET u == ireq[p][1]
        k == ireq[p][2]
        got == get_idempotency_record(idempotency_keys, u, k, now)
    IN  /\ ipc[p] = "insert"
        /\ IF ~flush_fails(idempotency_keys, IdempotencyKey(u, k, now))
             THEN /\ idempotency_keys' =
                       idempotency_keys \cup {IdempotencyKey(u, k, now)}
                  /\ ires' = [ires EXCEPT ![p] = Proceed]
                  /\ ipc' = [ipc EXCEPT ![p] = "handler"]
                  /\ stored' = [stored EXCEPT ![<<u, k>>] = None]
                  /\ hist' = [q \in Procs |->
                       IF q # p /\ ipc[q] = "insert" /\ ireq[q] = ireq[p]
                         THEN [hist[q] EXCEPT !.rival = TRUE] ELSE hist[q]]
           ELSE /\ ires' = [ires EXCEPT ![p] = LoserResponse(got.record)]
                /\ idempotency_keys' = OnNotProceed(got.rows, u, k)
                /\ ipc' = [ipc EXCEPT ![p] = "idle"]
                /\ hist' = [hist EXCEPT ![p].seen =
                       IF got.record = {} THEN "absent"
                       ELSE (CHOOSE r \in got.record : TRUE).status]
                /\ UNCHANGED stored
        /\ UNCHANGED <<now, cfgvars, outvars, janvars, authvars, ireq>>

\* the wrapped handler returned: store_idempotency_response
HandlerReturns(p, status_code, body) ==
    /\ ipc[p] = "handler"
    /\ idempotency_keys' = get_db(idempotency_keys,
           IF has_key(ireq[p][2])
             THEN store_idempotency_response(idempotency_keys, ireq[p][1],
                                             ireq[p][2], status_code, body)
           ELSE idempotency_keys, FALSE)
    /\ stored' = IF ~has_key(ireq[p][2])
                      \/ FindByKey(idempotency_keys, ireq[p][1], ireq[p][2]) = {}
                   THEN stored
                 ELSE [stored EXCEPT ![ireq[p]] = Some(<<status_code, body>>)]
    /\ ipc' = [ipc EXCEPT ![p] = "idle"]
    /\ UNCHANGED <<now, cfgvars, outvars, janvars, authvars, ireq, ires, hist>>

\* the wrapped handler raised: mark_idempotency_failed, then re-raise
HandlerRaises(p) ==
    /\ ipc[p] = "handler"
    /\ idempotency_keys' = get_db(idempotency_keys,
           IF has_key(ireq[p][2])
             THEN mark_idempotency_failed(idempotency_keys, ireq[p][1], ireq[p][2])
           ELSE idempotency_keys, TRUE)
    /\ ipc' = [ipc EXCEPT ![p] = "idle"]
    /\ UNCHANGED <<now, cfgvars, outvars, janvars, authvars, ireq, ires, stored, hist>>

\* store_idempotency_response raised at its flush (line 127), inside the try of
\* the handler: the except clause calls mark_idempotency_failed on the record
\* store_idempotency_response has already written to, then re-raises
HandlerStoreRaises(p, status_code, body) ==
    /\ ipc[p] = "handler"
    /\ has_key(ireq[p][2])
    /\ idempotency_keys' = get_db(idempotency_keys,
           mark_idempotency_failed(
               store_idempotency_response(idempotency_keys, ireq[p][1], ireq[p][2],
                                          status_code, body),
               ireq[p][1], ireq[p][2]), TRUE)
    /\ stored' = IF FindByKey(idempotency_keys, ireq[p][1], ireq[p][2]) = {}
                   THEN stored
                 ELSE [stored EXCEPT ![ireq[p]] = Some(<<status_code, body>>)]
    /\ ipc' = [ipc EXCEPT ![p] = "idle"]
    /\ UNCHANGED <<now, cfgvars, outvars, janvars, authvars, ireq, ires, hist>>

\* the wrapped handler was left by a BaseException that is no Exception
\* (asyncio.CancelledError at an await): "except Exception" does not run
HandlerCancelled(p) ==
    /\ ipc[p] = "handler"
    /\ ipc' = [ipc EXCEPT ![p] = "idle"]
    /\ UNCHANGED <<now, cfgvars, outvars, janvars, authvars, idempotency_keys, ireq, ires, stored, hist>>

\* a pass that stops after the first delete that found rows
cleanup_task_first_hit ==
    /\ idempotency_keys' = cleanup_expired_idempotency_keys(idempotency_keys, now)
    /\ revoked_access_tokens' =
          IF idempotency_keys' # idempotency_keys THEN revoked_access_tokens
          ELSE cleanup_expired_revoked_tokens(revoked_access_tokens, now)
    /\ UNCHANGED <<now, cfgvars, outvars, janvars, users, refresh_tokens, issued, nextId, pc, req, last,
                   rotated, ipc, ireq, ires, stored, hist>>

\* one pass of the loop of cleanup_task
cleanup_task ==
    /\ idempotency_keys' = cleanup_expired_idempotency_keys(idempotency_keys, now)
    /\ revoked_access_tokens' = cleanup_expired_revoked_tokens(revoked_access_tokens, now)
    /\ UNCHANGED <<now, cfgvars, outvars, janvars, users, refresh_tokens, issued, nextId, pc, req, last,
                   rotated, ipc, ireq, ires, stored, hist>>

\* the loop of cleanup_task step by step (tasks.py 14-37).
\* asyncio.sleep returned (or the task was started): the next pass begins
janitor_start ==
    /\ jpc = "sleep"
    /\ jpc' = "sweep"
    /\ UNCHANGED <<now, cfgvars, outvars, jerr, authvars, idemvars>>

\* the pass ran to its end: both deletes, then the sleep
janitor_sweep ==
    /\ jpc = "sweep"
    /\ idempotency_keys' = cleanup_expired_idempotency_keys(idempotency_keys, now)
    /\ revoked_access_tokens' = cleanup_expired_revoked_tokens(revoked_access_tokens, now)
    /\ jpc' = "sleep"
    /\ jerr' = FALSE
    /\ UNCHANGED <<now, cfgvars, outvars, users, refresh_tokens, issued, nextId, pc,
                   req, last, rotated, ipc, ireq, ires, stored, hist>>

\* where the loop goes when a statement of the try block raises: "except
\* Exception" logs the error and the loop goes on to its sleep
except_nothing(position) == "terminated"
except_Exception(position) == "sleep"

\* a statement of the pass raised: the first delete (step 1, nothing was
\* deleted) or the second (step 2, after the first delete)
janitor_raises(step) ==
    /\ jpc = "sweep"
    /\ idempotency_keys' =
          IF step = 1 THEN idempotency_keys
          ELSE get_db(idempotency_keys,
                      cleanup_expired_idempotency_keys(idempotency_keys, now), TRUE)
    /\ jpc' = except_Exception(jpc)
    /\ jerr' = TRUE
    /\ UNCHANGED <<now, cfgvars, outvars, users, refresh_tokens, revoked_access_tokens,
                   issued, nextId, pc, req, last, rotated, ipc, ireq, ires, stored, hist>>

\* decode_token raised inside the try of logout_user and "except Exception:
\* pass" ran (lines 205-212)
DecodeFails(refresh_token, t) ==
    refresh_token # None /\ ~decode_token(Val(refresh_token), t)

\* service.logout_user called directly (lines 178-212): the select of the
\* revoked record, db.add of a new one, the decoding of the refresh token and
\* revoke_token_family; nothing is flushed before the session commits.
\* access_jti, expires_at and refresh_token are None or Some(value)
logout_user(p, access_jti, expires_at, refresh_token) ==
    /\ lpc[p] = "idle"
    /\ \A q \in Procs : q < p => lpc[q] # "idle"
    /\ lpc' = [lpc EXCEPT ![p] = "commit"]
    /\ lreq' = [lreq EXCEPT ![p] =
          [jti |-> access_jti,
           swallowed |-> DecodeFails(refresh_token, now),
           added |-> LogoutAccess(revoked_access_tokens, access_jti, expires_at, now)
                       \ revoked_access_tokens,
           revoked |-> {r.token_hash :
                          r \in refresh_tokens
                                 \ LogoutRefresh(refresh_tokens, refresh_token, now)},
           at |-> now]]
    /\ UNCHANGED <<now, cfgvars, janvars, authvars, idemvars>>

\* the INSERT of a pending revoked record meets a row with its primary key
\* (models.py 63: jti is the primary key of revoked_access_tokens)
IntegrityError(rows, added) == \E r \in added, x \in rows : x.jti = r.jti

\* the session of a call of logout_user commits: the pending record is
\* inserted and the revoked rows are updated, or the INSERT fails and the
\* request ends with the error, nothing written
logout_commit(p) ==
    LET pending == lreq[p]
        id == IF pending.jti = None THEN 0 ELSE Val(pending.jti)
    IN  /\ lpc[p] = "commit"
        /\ lpc' = [lpc EXCEPT ![p] = "idle"]
        /\ lreq' = [lreq EXCEPT ![p] = NoPending]
        /\ IF IntegrityError(revoked_access_tokens, pending.added)
             THEN /\ last' = Result("logout_user", "IntegrityError", id)
                  /\ UNCHANGED <<revoked_access_tokens, refresh_tokens>>
           ELSE /\ revoked_access_tokens' = get_db(revoked_access_tokens,
                       revoked_access_tokens \cup pending.added, FALSE)
                /\ refresh_tokens' = get_db(refresh_tokens,
                       {IF r.token_hash \in pending.revoked
                          THEN [r EXCEPT !.revoked_at = Some(pending.at)] ELSE r :
                        r \in refresh_tokens}, FALSE)
                /\ last' = Result("logout_user", "ok", id)
        /\ UNCHANGED <<now, cfgvars, janvars, users, issued, nextId, pc, req, rotated,
                       idemvars>>

\* the arguments a caller of logout_user can pass
LogoutJtis == {None} \cup {Some(t.jti) : t \in AccessIssued}
LogoutExpiries(access_jti) ==
    {None} \cup {Some(fromtimestamp(t.exp)) :
                   t \in {a \in AccessIssued : Some(a.jti) = access_jti}}
LogoutRefreshTokens == {None, Some(GarbageToken)} \cup {Some(t) : t \in RefreshIssued}

\* direct calls of the codec (core/security.py)
IssueAccess(s) ==
    /\ nextId <= MaxIds
    /\ issued' = issued \cup {create_access_token(s, nextId, now)}
    /\ nextId' = nextId + 1
    /\ UNCHANGED <<now, cfgvars, outvars, janvars, users, refresh_tokens, revoked_access_tokens,
                   pc, req, last, rotated, idemvars>>

IssueRefresh(s, family_id) ==
    /\ nextId <= MaxIds
    /\ issued' = issued \cup {create_refresh_token(s, family_id, nextId, now)}
    /\ nextId' = nextId + 1
    /\ UNCHANGED <<now, cfgvars, outvars, janvars, users, refresh_tokens, revoked_access_tokens,
                   pc, req, last, rotated, idemvars>>

Forgeries ==
    {Forge(k, ty, s, now) :
        k \in {settings.secret_key, settings.access_token_secret_key,
               settings.refresh_token_secret_key},
        ty \in {"access", "refresh"}, s \in Subjects}

Decode(token) ==
    /\ decoded' = IF decode_token(token, now) THEN Some(Payload(token)) ELSE None
    /\ last' = Result("decode_token",
                      IF decode_token(token, now) THEN "ok"
                      ELSE "Invalid or expired token", token.jti)
    /\ UNCHANGED <<now, settings, outvars, janvars, users, refresh_tokens, revoked_access_tokens,
                   issued, nextId, pc, req, rotated, idemvars>>

\* ------------------------------------------------------------ specifications
\* the codec under every configuration of the secrets
NextCodec ==
    \/ Tick
    \/ \E s \in Subjects : IssueAccess(s)
    \/ \E s \in Subjects, f \in {None} \cup {t.family : t \in RefreshIssued} :
          IssueRefresh(s, f)
    \/ \E t \in issued \cup Forgeries \cup {GarbageToken} : Decode(t)

SpecCodec == InitCodec /\ [][NextCodec]_vars

\* credential rotation: issuance, the two steps of refresh, user deletion
NextRotation ==
    \/ Tick
    \/ \E u \in Users : register_user(u)
    \/ \E u \in Users : login_user(u)
    \/ \E u \in Users : delete_user(u)
    \/ \E p \in Procs, t \in Presentable : RefreshLookup(p, t)
    \/ \E p \in Procs : RefreshRotate(p)

SpecRotation == Init /\ [][NextRotation]_vars

\* rotation on a database whose statements can fail
NextStorage ==
    \/ Tick
    \/ \E u \in Users : register_user(u)
    \/ \E p \in Procs, t \in Presentable : RefreshLookup(p, t)
    \/ \E p \in Procs : RefreshRotate(p)
    \/ \E p \in Procs, t \in Presentable : RefreshLookupRaises(p, t)
    \/ \E p \in Procs : RefreshRotateRaises(p)

SpecStorage == Init /\ [][NextStorage]_vars

\* family revocation from both of its callers, with several families stored:
\* sign-up and logins, refresh with a signed token that has no row (reuse
\* handling), calls of logout_user with a refresh token
NextFamily ==
    \/ Tick
    \/ \E u \in Users : register_user(u)
    \/ \E u \in Users : login_user(u)
    \/ \E p \in Procs, t \in Unstored : RefreshLookup(p, t)
    \/ \E p \in Procs, t \in RefreshIssued : logout_user(p, None, None, Some(t))
    \/ \E p \in Procs : logout_commit(p)

SpecFamily == Init /\ [][NextFamily]_vars

\* idempotent writes of two users that send the same key string
NextScope ==
    \/ Tick
    \/ \E p \in Procs, u \in ScopeUsers, k \in Keys : create_workout_session(p, u, k)
    \/ \E p \in Procs : BeginInsert(p)
    \/ \E p \in Procs, b \in Bodies : HandlerReturns(p, 201, b)
    \/ \E p \in Procs : HandlerRaises(p)

SpecScope == Init /\ [][NextScope]_vars

\* families of two accounts: sign-up, login, and refresh with the tokens handed
\* out and with signed tokens that name a stored family but have no row
NextOwner ==
    \/ Tick
    \/ \E u \in Accounts : register_user(u)
    \/ \E u \in Accounts : login_user(u)
    \/ \E p \in Procs, t \in RefreshIssued \cup Unstored : RefreshLookup(p, t)
    \/ \E p \in Procs : RefreshRotate(p)

SpecOwner == Init /\ [][NextOwner]_vars

\* access credentials: issuance, authenticated requests, logout, the janitor
NextAccess ==
    \/ Tick
    \/ \E u \in Users : register_user(u)
    \/ \E u \in Users : login_user(u)
    \/ \E t \in issued \cup {GarbageToken} : Authenticate(t)
    \/ \E t \in issued \cup {GarbageToken} : logout(t)
    \/ cleanup_task

SpecAccess == Init /\ [][NextAccess]_vars

\* idempotent writes: the two steps of start_idempotency_request, the wrapped
\* handler's two ends, the janitor
NextIdem ==
    \/ Tick
    \/ \E p \in Procs, u \in IdemUsers, k \in Keys \cup {NoKey} :
          create_workout_session(p, u, k)
    \/ \E p \in Procs : BeginInsert(p)
    \/ \E p \in Procs, c \in StatusCodes, b \in Bodies : HandlerReturns(p, c, b)
    \/ \E p \in Procs : HandlerRaises(p)
    \/ \E p \in Procs, c \in StatusCodes, b \in Bodies : HandlerStoreRaises(p, c, b)
    \/ \E p \in Procs : HandlerCancelled(p)
    \/ cleanup_task

SpecIdem == Init /\ [][NextIdem]_vars

\* sessions: sign-up, rotation of the refresh credential, logout
NextLogout ==
    \/ Tick
    \/ \E u \in Users : register_user(u)
    \/ \E p \in Procs, t \in Presentable : RefreshLookup(p, t)
    \/ \E p \in Procs : RefreshRotate(p)
    \/ \E t \in issued \cup {GarbageToken} : logout(t)

SpecLogout == Init /\ [][NextLogout]_vars

\* revocation: the program started with any access token lifetime; sign-up,
\* calls of logout_user, the janitor
InitRevocation == settings \in LifetimeConfigurations /\ InitState

NextRevocation ==
    \/ Tick
    \/ \E u \in Users : register_user(u)
    \/ \E p \in Procs, j \in LogoutJtis, r \in LogoutRefreshTokens :
          \E e \in LogoutExpiries(j) : logout_user(p, j, e, r)
    \/ \E p \in Procs : logout_commit(p)
    \/ cleanup_task

SpecRevocation == InitRevocation /\ [][NextRevocation]_vars

\* the janitor: sign-up and logout make the rows with an expiry, the loop of
\* cleanup_task runs step by step
NextJanitor ==
    \/ Tick
    \/ \E u \in Users : register_user(u)
    \/ \E u \in Users : login_user(u)
    \/ \E t \in issued \cup {GarbageToken} : logout(t)
    \/ janitor_start
    \/ janitor_sweep
    \/ \E step \in {1, 2} : janitor_raises(step)

SpecJanitor == Init /\ [][NextJanitor]_vars

\* asyncio.sleep(3600) returns and the loop takes its next turn; a pass that
\* began ends (with or without an error)
FairJanitor ==
    /\ WF_vars(janitor_start)
    /\ WF_vars(janitor_sweep \/ \E step \in {1, 2} : janitor_raises(step))

SpecJanitorLive == SpecJanitor /\ FairJanitor

\* the sweep with rows in all three stores: sign-up and logout fill the
\* credential stores, keyed requests fill the idempotency table
NextSweep ==
    \/ Tick
    \/ \E u \in Users : register_user(u)
    \/ \E t \in AccessIssued : logout(t)
    \/ \E p \in Procs, u \in IdemUsers, k \in Keys : create_workout_session(p, u, k)
    \/ \E p \in Procs : BeginInsert(p)
    \/ \E p \in Procs, c \in StatusCodes, b \in Bodies : HandlerReturns(p, c, b)
    \/ \E p \in Procs : HandlerRaises(p)
    \/ cleanup_task

SpecSweep == Init /\ [][NextSweep]_vars

\* ------------------------------------------------------------- claim helpers
\* the error kinds of the specification, by the message the code raises
ErrorKind(out) ==
    CASE out \in {"Invalid refresh token", "Invalid token type",
                  "User not found or disabled"} -> "InvalidCredential"
      [] out = "Refresh token expired" -> "CredentialExpired"
      [] RevokesFamily(out) -> "ReuseDetected"
      [] OTHER -> "none"

WasRotated(t) == \E c \in rotated : c[1] = t.jti
FamilyRevoked(rows, f) == \A r \in rows : r.family_id = f => is_revoked(r)
RefreshFailed(p) ==
    /\ pc'[p] = "idle"
    /\ last'.op = "refresh"
    /\ ErrorKind(last'.out) \in {"ReuseDetected", "InvalidCredential"}

\* C1 as stated: whenever a refresh token that was already rotated successfully
\* is presented again, the call fails with reuse semantics and leaves every
\* credential of its family revoked.
C1_ReplayAlwaysReuse ==
    [][\A p \in Procs, t \in RefreshIssued :
          (WasRotated(t) /\ RefreshLookup(p, t))
          => /\ ErrorKind(last'.out) = "ReuseDetected"
             /\ FamilyRevoked(refresh_tokens', t.family)]_vars

\* C1 amended: presenting an already rotated refresh token again, while the
\* token still decodes, fails with reuse semantics and leaves every stored
\* credential of its family revoked; a revoked credential stays revoked; and a
\* refresh that starts with a token returned by a rotation, once the row of
\* that token is revoked or gone, fails.
RevokedOrGone(t) ==
    \A r \in FindByHash(refresh_tokens, hash_token(t)) : is_revoked(r)
StaysRevoked ==
    \A r \in refresh_tokens, x \in refresh_tokens' :
        (is_revoked(r) /\ x.token_hash = r.token_hash) => is_revoked(x)

C1_ReplayRevokesFamily ==
    [][/\ \A p \in Procs, t \in {x \in RefreshIssued : WasRotated(x)} :
             (decode_token(t, now) /\ RefreshLookup(p, t))
             => /\ last'.op = "refresh"
                /\ ErrorKind(last'.out) = "ReuseDetected"
                /\ FamilyRevoked(refresh_tokens', t.family)
                /\ pc'[p] = "idle"
       /\ StaysRevoked
       /\ \A p \in Procs, t \in {x \in RefreshIssued : RevokedOrGone(x)} :
             ((\E c \in rotated : c[2] = t.jti) /\ RefreshLookup(p, t))
             => RefreshFailed(p)]_vars

\* C1 witness: a replay of a rotated token has just run reuse handling, and the
\* token its rotation returned is stored and was revoked by it.
C1_Witness ==
    /\ last = Result("refresh", "Refresh token reuse detected", 0)
    /\ \E c \in rotated, r \in refresh_tokens :
          /\ RowJti(r) = c[2]
          /\ r.revoked_at = Some(now)
          /\ \A d \in rotated : d[1] # c[2]

\* C2 as stated: no refresh token is rotated successfully twice (of two
\* concurrent refreshes of one token at most one returns a new pair).
C2_SingleWinner ==
    \A a \in rotated, b \in rotated : a[1] = b[1] => a[2] = b[2]

\* C9 as stated: refresh of a stored, non-revoked credential whose expiry has
\* passed fails with CredentialExpired and changes no credential row.
ExpiredStored(t) ==
    \E r \in FindByHash(refresh_tokens, hash_token(t)) :
        r.revoked_at = None /\ now > r.expires_at

C9_ExpiredIsCredentialExpired ==
    [][\A p \in Procs, t \in RefreshIssued :
          (ExpiredStored(t) /\ RefreshLookup(p, t))
          => /\ ErrorKind(last'.out) = "CredentialExpired"
             /\ refresh_tokens' = refresh_tokens]_vars

\* C9 amended: refresh of a stored, non-revoked credential whose expiry has
\* passed fails, with CredentialExpired while the token's own expiry claim (in
\* whole seconds) still decodes and with InvalidCredential once it does not; in
\* both cases no credential row changes, so a sibling of the family that could
\* be rotated before the call can still be rotated after it.
C9_ExpiredFailsWithoutRevocation ==
    [][\A p \in Procs, t \in RefreshIssued :
          (ExpiredStored(t) /\ RefreshLookup(p, t))
          => /\ last'.op = "refresh"
             /\ ErrorKind(last'.out) =
                  IF decode_token(t, now) THEN "CredentialExpired"
                  ELSE "InvalidCredential"
             /\ pc'[p] = "idle"
             /\ refresh_tokens' = refresh_tokens
             /\ \A s \in RefreshIssued :
                  (s.family = t.family
                     /\ RefreshOutcome(refresh_tokens, s, now) = "found")
                  => RefreshOutcome(refresh_tokens', s, now) = "found"]_vars

\* C9 witness: a refresh has just failed on expiry while the family holds an
\* expired, non-revoked credential and a sibling that is still active.
C9_Witness ==
    /\ last = Result("refresh", "Refresh token expired", 0)
    /\ \E r1 \in refresh_tokens, r2 \in refresh_tokens :
          /\ r1.family_id = r2.family_id
          /\ ~is_revoked(r1) /\ is_expired(r1, now)
          /\ ~is_revoked(r2) /\ ~is_expired(r2, now)

\* C10: refresh with a decodable refresh token that has no stored row fails with
\* ReuseDetected and leaves every stored credential of the claimed family
\* revoked; a refresh that starts later with a credential the family held then
\* fails.
NotStored(t) ==
    /\ t.type = "refresh" /\ t.sub # "" /\ t.family # None
    /\ decode_token(t, now)
    /\ FindByHash(refresh_tokens, hash_token(t)) = {}

C5_RevokedAccessRejected ==
    (last.op = "request" /\ last.out = "ok")
    => ~is_access_token_revoked(revoked_access_tokens, last.id)

\* ---------------------------------------------------- idempotency claims
Fresh(r) == now - r.created_at <= timedelta(IDEMPOTENCY_KEY_TTL)
RecordIn(u, k, status) ==
    \E r \in FindByKey(idempotency_keys, u, k) : r.status = status /\ Fresh(r)
IsCached(res) == ~res.proceed /\ res.status \in StatusCodes

\* C3: once the record of (user, key) is completed and within the TTL, a Begin
\* for it returns the cached response (the one last stored for the record),
\* does not start the handler and leaves the table as it is; the handler of a
\* request with a key runs only for a flow that was told to proceed.
C3_CompletedReturnsCached ==
    [][/\ \A p \in Procs, u \in IdemUsers, k \in Keys :
             (RecordIn(u, k, "completed") /\ BeginRead(p, u, k))
             => /\ IsCached(ires'[p])
                /\ stored[<<u, k>>] = Some(<<ires'[p].status, ires'[p].body>>)
                /\ ipc'[p] = "idle"
                /\ idempotency_keys' = idempotency_keys
       /\ \A p \in Procs :
             (RecordIn(ireq[p][1], ireq[p][2], "completed") /\ BeginInsert(p))
             => /\ IsCached(ires'[p])
                /\ stored[ireq[p]] = Some(<<ires'[p].status, ires'[p].body>>)
                /\ ipc'[p] = "idle"
                /\ idempotency_keys' = idempotency_keys
       /\ \A p \in Procs :
             (ipc'[p] = "handler" /\ ireq'[p][2] # NoKey) => ires'[p] = Proceed]_vars

\* C3 witness: one flow proceeded and completed, and the other flow's later
\* Begin for the same key came back with the response stored by the first.
C3_Witness ==
    \E p \in Procs, q \in Procs :
        /\ p # q /\ ireq[p] = ireq[q]
        /\ ipc[p] = "idle" /\ ipc[q] = "idle"
        /\ ires[q] = Proceed
        /\ IsCached(ires[p])
        /\ stored[ireq[p]] = Some(<<ires[p].status, ires[p].body>>)
        /\ RecordIn(ireq[p][1], ireq[p][2], "completed")

\* C4 as stated: of two Begin calls for one (user, key) that both found no
\* record, the one whose insert comes second never returns Proceed.
C4_ExactlyOneProceeds ==
    [][\A q \in Procs :
          (hist[q].rival /\ BeginInsert(q)) => ires'[q] # Proceed]_vars

\* C4 amended: of two Begin calls for one (user, key) that both found no
\* record, the one whose insert comes first returns Proceed and adds the
\* processing record; the other, as long as a record of the key is stored when
\* its insert runs, returns Cached if that record is completed within the TTL
\* and Conflict otherwise, and does not start the handler.  When the record has
\* been removed in between (by the janitor after the TTL, or by a later Begin
\* that found it failed) the second call returns Proceed as well.
C4_LoserDoesNotProceed ==
    [][\A q \in Procs :
          BeginInsert(q) =>
            LET u == ireq[q][1]
                k == ireq[q][2]
                rec == FindByKey(idempotency_keys, u, k)
            IN  IF rec = {}
                  THEN /\ ires'[q] = Proceed
                       /\ ipc'[q] = "handler"
                       /\ FindByKey(idempotency_keys', u, k) =
                             {IdempotencyKey(u, k, now)}
                       /\ \A p \in Procs \ {q} :
                             (ipc[p] = "insert" /\ ireq[p] = ireq[q])
                             => hist'[p].rival
                ELSE /\ ~ires'[q].proceed
                     /\ ipc'[q] = "idle"
                     /\ IF RecordIn(u, k, "completed")
                          THEN \A r \in rec : ires'[q] = CachedResponse(r)
                        ELSE ires'[q].status = 409]_vars

\* C4 witness: two flows raced on one key; the first insert proceeded and its
\* handler is running, the second was refused with 409.
C4_Witness ==
    \E p \in Procs, q \in Procs :
        /\ p # q /\ ireq[p] = ireq[q]
        /\ hist[q].rival /\ ipc[q] = "idle" /\ ires[q].status = 409
        /\ ipc[p] = "handler" /\ ires[p] = Proceed

\* C6: a Begin that finds the record of (user, key) failed deletes it and goes
\* on to the insert; unless another flow inserts a record of the key first,
\* it then returns Proceed and starts the handler again.
C6_FailedAllowsRetry ==
    [][/\ \A p \in Procs, u \in IdemUsers, k \in Keys :
             (RecordIn(u, k, "failed") /\ BeginRead(p, u, k))
             => /\ FindByKey(idempotency_keys', u, k) = {}
                /\ ipc'[p] = "insert"
                /\ hist'[p].retry
       /\ \A p \in Procs :
             (hist[p].retry /\ ~hist[p].rival /\ BeginInsert(p))
             => /\ ires'[p] = Proceed
                /\ ipc'[p] = "handler"
                /\ \E r \in FindByKey(idempotency_keys', ireq[p][1], ireq[p][2]) :
                      r.status = "processing"]_vars

\* C6 witness: a flow whose Begin found a failed record was told to proceed
\* and its handler is running.
C6_Witness ==
    \E p \in Procs :
        /\ hist[p].retry /\ ~hist[p].rival
        /\ ipc[p] = "handler" /\ ires[p] = Proceed

\* C7: a Begin for a (user, key) whose record is processing is refused with
\* status 409 without starting the handler, and the table (so the record, still
\* processing) is left as it is.
C7_ProcessingConflicts ==
    [][/\ \A p \in Procs, u \in IdemUsers, k \in Keys :
             (RecordIn(u, k, "processing") /\ BeginRead(p, u, k))
             => /\ ires'[p] = Conflict("Request already in progress")
                /\ ires'[p].status = 409 /\ ~ires'[p].proceed
                /\ ipc'[p] = "idle"
                /\ idempotency_keys' = idempotency_keys
       /\ \A p \in Procs :
             (RecordIn(ireq[p][1], ireq[p][2], "processing") /\ BeginInsert(p))
             => /\ ires'[p].status = 409 /\ ~ires'[p].proceed
                /\ ipc'[p] = "idle"
                /\ idempotency_keys' = idempotency_keys]_vars

\* C7 witness: while one flow's handler runs, a Begin of the other flow that
\* read the processing record was refused and the record is still processing.
C7_Witness ==
    \E p \in Procs, q \in Procs :
        /\ p # q /\ ireq[p] = ireq[q]
        /\ ipc[q] = "handler"
        /\ ipc[p] = "idle" /\ ~hist[p].rival
        /\ ires[p] = Conflict("Request already in progress")
        /\ RecordIn(ireq[p][1], ireq[p][2], "processing")

\* C8: after the handler's response (status s, body b) is stored for a record,
\* the cached response read back from the record is (s, b), and every Begin
\* that returns a cached response returns the (s, b) last stored for the key.
C8_CachedRoundTrip ==
    [][/\ \A p \in Procs, c \in StatusCodes, b \in Bodies :
             (FindByKey(idempotency_keys, ireq[p][1], ireq[p][2]) # {}
                 /\ HandlerReturns(p, c, b))
             => \A r \in FindByKey(idempotency_keys', ireq[p][1], ireq[p][2]) :
                   /\ r.status = "completed"
                   /\ CachedResponse(r).status = c
                   /\ CachedResponse(r).body = b
       /\ \A p \in Procs, u \in IdemUsers, k \in Keys :
             (BeginRead(p, u, k) /\ ipc'[p] = "idle" /\ ires'[p].status # 409)
             => /\ IsCached(ires'[p])
                /\ stored[<<u, k>>] = Some(<<ires'[p].status, ires'[p].body>>)]_vars

\* C8 witness: a Begin returned (201, "{id:x}") from a record that holds the
\* status as the text "201".
C8_Witness ==
    \E p \in Procs :
        /\ ipc[p] = "idle"
        /\ ires[p] = [proceed |-> FALSE, status |-> 201, body |-> "{id:x}"]
        /\ \E r \in FindByKey(idempotency_keys, ireq[p][1], ireq[p][2]) :
              /\ r.response_status = Some("201")
              /\ r.response_body = Some("{id:x}")

\* ------------------------------------------------------------ rotation result
\* the rows a step adds to refresh_tokens
NewRows ==
    {r \in refresh_tokens' :
        \A x \in refresh_tokens : x.token_hash # r.token_hash}

\* C11: a successful refresh of R leaves the row of R revoked, adds exactly one
\* row, which is active, has the user and the family of R's row, and is the row
\* of the refresh token it returns; that token differs from R and comes with a
\* new access token; no other row changes.
C11_RotationReplacesCredential ==
    [][\A p \in Procs :
          (RefreshRotate(p) /\ last'.op = "refresh" /\ last'.out = "ok")
          => LET token == req[p]
                 old == FindByHash(refresh_tokens, hash_token(token))
             IN  /\ old # {}
                 /\ \A r \in FindByHash(refresh_tokens', hash_token(token)) :
                       r.revoked_at # None
                 /\ Cardinality(NewRows) = 1
                 /\ \A r \in NewRows :
                       /\ r.revoked_at = None /\ ~(now > r.expires_at)
                       /\ \A o \in old : r.user_id = o.user_id
                                         /\ r.family_id = o.family_id
                       /\ \E nr \in issued' \ issued :
                             /\ nr.type = "refresh" /\ nr # token
                             /\ nr.jti = last'.id
                             /\ r.token_hash = <<"sha256", nr>>
                 /\ \E na \in issued' \ issued :
                       na.type = "access" /\ na.sub = token.sub
                 /\ \A r \in refresh_tokens :
                       r.token_hash # hash_token(token) => r \in refresh_tokens']_vars

\* C11 witness: a refresh has just returned a new pair; the row of the new token
\* is active and the row it replaced, of the same family, was revoked now.
C11_Witness ==
    /\ last.op = "refresh" /\ last.out = "ok"
    /\ \E r \in refresh_tokens, o \in refresh_tokens :
          /\ RowJti(r) = last.id /\ r.revoked_at = None
          /\ o.family_id = r.family_id /\ o.revoked_at = Some(now)
          /\ <<RowJti(o), last.id>> \in rotated

\* ------------------------------------------------------------- codec claims
\* C12 as stated: a token that decode_token accepts and that says it is an
\* access token was signed with the access secret and not with the refresh
\* secret, and one that says it is a refresh token was signed with the refresh
\* secret and not with the access secret.
C12_IndependentSecrets ==
    [][\A tok \in issued \cup Forgeries :
          (Decode(tok) /\ decoded' # None)
          => /\ tok.type = "access"
                  => /\ tok.key = settings.access_token_secret_key
                     /\ tok.key # settings.refresh_token_secret_key
             /\ tok.type = "refresh"
                  => /\ tok.key = settings.refresh_token_secret_key
                     /\ tok.key # settings.access_token_secret_key]_vars

\* C14 as stated: decoding a token that create_access_token(s) returned, before
\* its expiry, succeeds and yields subject s, the issued id and type access;
\* decoding one that create_refresh_token(s, f) returned succeeds and yields
\* subject s, type refresh and the family the call returned, which is f when a
\* family was supplied.
C14_CodecRoundTrip ==
    [][\A s \in Subjects, id \in 1..MaxIds, t0 \in 0..MaxTime :
          /\ LET tok == create_access_token(s, id, t0) IN
               (tok \in issued /\ ~(tok.exp < timegm(now)) /\ Decode(tok))
               => /\ decoded' # None
                  /\ Val(decoded').sub = s
                  /\ Val(decoded').jti = id
                  /\ Val(decoded').type = "access"
          /\ \A f \in {None} \cup {Some(i) : i \in 1..MaxIds} :
               LET tok == create_refresh_token(s, f, id, t0) IN
               (tok \in issued /\ ~(tok.exp < timegm(now)) /\ Decode(tok))
               => /\ decoded' # None
                  /\ Val(decoded').sub = s
                  /\ Val(decoded').type = "refresh"
                  /\ Val(decoded').family = returned_family(f, id)
                  /\ f # None => Val(decoded').family = f]_vars

\* C13 as stated: the responses of two failed refresh calls of which one
\* detected reuse and the other failed with InvalidCredential or
\* CredentialExpired have the same status and the same body.
C13_FailuresIndistinguishable ==
    [][(/\ last.op = "refresh"
        /\ ErrorKind(last.out) \in {"InvalidCredential", "CredentialExpired"}
        /\ last'.op = "refresh" /\ ErrorKind(last'.out) = "ReuseDetected")
       => api_error_handler(UnauthorizedError(last.out))
            = api_error_handler(UnauthorizedError(last'.out))]_vars

\* C15 as stated: after a pass of the cleanup loop at time t the store holds no
\* refresh credential row whose expiry is before t, no revoked-access row whose
\* expiry is before t, and no idempotency record created more than the TTL
\* before t.
C15_SweepRemovesExpired ==
    [][cleanup_task
       => /\ \A r \in refresh_tokens' : ~(r.expires_at < now)
          /\ \A r \in revoked_access_tokens' : ~(r.expires_at < now)
          /\ \A r \in idempotency_keys' :
                ~(r.created_at < now - timedelta(IDEMPOTENCY_KEY_TTL))]_vars

\* C16: in every reachable state there is at most one idempotency record for
\* each (user, key) pair.
C16_OneRecordPerKey ==
    \A u \in IdemUsers, k \in Keys :
        Cardinality(FindByKey(idempotency_keys, u, k)) <= 1

\* C16 witness: two flows read no record for one key, one of them has inserted
\* its record and the other is about to insert.
C16_Witness ==
    \E q \in Procs :
        /\ ipc[q] = "insert" /\ hist[q].rival
        /\ Cardinality(FindByKey(idempotency_keys, ireq[q][1], ireq[q][2])) = 1

\* C17 as stated: once the revocation timestamp of a credential row is set, no
\* step clears it or changes it.
C17_RevocationOneWay ==
    [][\A r \in refresh_tokens, x \in refresh_tokens' :
          (r.revoked_at # None /\ x.token_hash = r.token_hash)
          => x.revoked_at = r.revoked_at]_vars

\* the refresh token a client holds next to an access token: the one issued
\* with it by register_user, login_user or refresh_tokens
SessionRefresh(access) ==
    {t \in RefreshIssued : t.jti = access.jti /\ t.sub = access.sub}

OnlyComplete(p) ==
    \E c \in StatusCodes, b \in Bodies :
        idempotency_keys' = store_idempotency_response(idempotency_keys,
                                ireq[p][1], ireq[p][2], c, b)
OnlyFail(p) ==
    idempotency_keys' = mark_idempotency_failed(idempotency_keys,
                            ireq[p][1], ireq[p][2])

\* C19: an execution of create_workout_session / update_workout_session that
\* received Proceed makes exactly one of the calls store_idempotency_response
\* and mark_idempotency_failed before it returns or raises: its record is not
\* left in processing and does not receive both calls
C19_ExactlyOneOfCompleteFail ==
    [][\A p \in Procs :
          (/\ ipc[p] = "handler" /\ ipc'[p] = "idle"
           /\ FindByKey(idempotency_keys, ireq[p][1], ireq[p][2]) # {})
          => /\ OnlyComplete(p) # OnlyFail(p)
             /\ ~RecordIn(ireq[p][1], ireq[p][2], "processing")']_vars

\* the insert of flow p is about to lose the uniqueness race
LosesRace(p) ==
    /\ ipc[p] = "insert"
    /\ flush_fails(idempotency_keys, IdempotencyKey(ireq[p][1], ireq[p][2], now))

\* what the re-read of the loser returns (line 104)
Reread(p) == get_idempotency_record(idempotency_keys, ireq[p][1], ireq[p][2], now).record

\* C20 (as stated): the loser of the insert race re-reads the record and
\* branches as Begin does for a pre-existing record: completed gives the cached
\* response, processing gives Conflict, failed gives delete-and-retry, so the
\* loser returns Proceed
C20_LoserBranchesAsBegin ==
    [][\A p \in Procs : (LosesRace(p) /\ BeginInsert(p)) =>
          \A r \in Reread(p) :
             /\ r.status = "completed" => ires'[p] = CachedResponse(r)
             /\ r.status = "processing"
                  => ires'[p] = Conflict("Request already in progress or failed")
             /\ r.status = "failed"
                  => /\ ires'[p] = Proceed
                     /\ RecordIn(ireq[p][1], ireq[p][2], "processing")']_vars

\* C20 (amended): the loser re-reads once: completed gives the cached response;
\* processing, failed and no record all give Conflict, a failed record is left
\* in place and the loser never returns Proceed
C20_LoserCachedOrConflict ==
    [][\A p \in Procs : (LosesRace(p) /\ BeginInsert(p)) =>
          /\ \A r \in Reread(p) :
                r.status = "completed" => ires'[p] = CachedResponse(r)
          /\ (\A r \in Reread(p) : r.status # "completed")
                => ires'[p] = Conflict("Request already in progress or failed")
          /\ \A r \in Reread(p) : r.status = "failed" => r \in idempotency_keys'
          /\ ires'[p] # Proceed /\ ipc'[p] = "idle"]_vars

\* a loser whose re-read returned a failed record was answered Conflict, and
\* the failed record is still there
C20_Witness ==
    \E p \in Procs :
        /\ ipc[p] = "idle" /\ hist[p].seen = "failed"
        /\ ires[p] = Conflict("Request already in progress or failed")
        /\ \E r \in FindByKey(idempotency_keys, ireq[p][1], ireq[p][2]) :
              r.status = "failed"

\* the record of (u, k) is processing, within the TTL, and no handler is
\* running for it: the handler that got Proceed ended with neither call
Orphaned(u, k) ==
    /\ RecordIn(u, k, "processing")
    /\ \A q \in Procs : ~(ipc[q] = "handler" /\ ireq[q] = <<u, k>>)

\* C21: a record left in processing by a handler that ended without Complete
\* and without Fail does not become retryable on its own: while it is within
\* the TTL every step leaves it as it is, and every Begin for its (user, key)
\* is answered Conflict without starting the handler
C21_OrphanStaysConflict ==
    [][\A u \in IdemUsers, k \in Keys : Orphaned(u, k) =>
          /\ FindByKey(idempotency_keys', u, k) = FindByKey(idempotency_keys, u, k)
          /\ \A p \in Procs :
                BeginRead(p, u, k)
                => /\ ires'[p] = Conflict("Request already in progress")
                   /\ ipc'[p] = "idle"
          /\ \A p \in Procs :
                (ireq[p] = <<u, k>> /\ BeginInsert(p))
                => /\ ires'[p] = Conflict("Request already in progress or failed")
                   /\ ipc'[p] = "idle"]_vars

\* C21 witness: the flow whose handler left the record in processing (no other
\* flow has made a request) came back with the key and was refused
C21_Witness ==
    \E p \in Procs :
        /\ Orphaned(ireq[p][1], ireq[p][2])
        /\ \A q \in Procs : ipc[q] = "idle"
        /\ \A q \in Procs \ {p} : ireq[q] = <<"", "">>
        /\ ires[p] = Conflict("Request already in progress")

\* the stored record of (u, k) is older than the TTL
PastTTL(u, k) ==
    \E r \in FindByKey(idempotency_keys, u, k) :
        now - r.created_at > timedelta(IDEMPOTENCY_KEY_TTL)

\* what every Begin does on its read of a record past the TTL, whatever the
\* status: it deletes the record and goes on to the insert; and no Begin ever
\* returns a cached response unless a completed record within the TTL is stored
ExpiredIsAbsent ==
    /\ \A p \in Procs, u \in IdemUsers, k \in Keys :
          (PastTTL(u, k) /\ BeginRead(p, u, k))
          => /\ FindByKey(idempotency_keys', u, k) = {}
             /\ ipc'[p] = "insert" /\ hist'[p].expired
    /\ \A p \in Procs :
          (BeginInsert(p) /\ IsCached(ires'[p]))
          => RecordIn(ireq[p][1], ireq[p][2], "completed")
    /\ \A p \in Procs, u \in IdemUsers, k \in Keys :
          (BeginRead(p, u, k) /\ IsCached(ires'[p])) => RecordIn(u, k, "completed")

\* the insert of flow p made the new processing record and returned Proceed
InsertedAndProceeds(p) ==
    /\ ires'[p] = Proceed /\ ipc'[p] = "handler"
    /\ FindByKey(idempotency_keys', ireq[p][1], ireq[p][2])
         = {IdempotencyKey(ireq[p][1], ireq[p][2], now)}

\* C22 (as stated): a record older than the TTL is treated as absent
\* whatever its status: a Begin that finds one deletes it, inserts a new
\* processing record and returns Proceed, and a completed response is never
\* replayed after its TTL
C22_ExpiredGivesProceed ==
    [][/\ ExpiredIsAbsent
       /\ \A p \in Procs :
             (hist[p].expired /\ BeginInsert(p)) => InsertedAndProceeds(p)]_vars

\* C22 (amended): as above, but the Begin returns Proceed only if no other
\* Begin inserted a record for the key between its read and its insert
C22_ExpiredGivesProceedUnlessRaced ==
    [][/\ ExpiredIsAbsent
       /\ \A p \in Procs :
             (hist[p].expired /\ ~hist[p].rival /\ BeginInsert(p))
             => InsertedAndProceeds(p)
       /\ \A p \in Procs :
             (hist[p].expired /\ LosesRace(p) /\ BeginInsert(p))
             => ires'[p] = LoserResponse(Reread(p)) /\ ires'[p] # Proceed]_vars

\* C22 witness: a Begin whose read deleted a record past the TTL inserted the
\* new processing record and proceeded
C22_Witness ==
    \E p \in Procs :
        /\ ipc[p] = "handler" /\ hist[p].expired /\ ires[p] = Proceed
        /\ RecordIn(ireq[p][1], ireq[p][2], "processing")

\* ------------------------------------------------------------ revocation claims
\* C23: a revoked-access record is deleted only after the expiry of its
\* credential: once an access credential is logged out, is_access_token_revoked
\* stays true at every time before the credential's own expiry, whatever the
\* sweeps of the janitor, also when logout_user got no expiry and used the
\* fallback
C23_RevokedUntilExpiry ==
    [][\A t \in AccessIssued :
          (/\ is_access_token_revoked(revoked_access_tokens, t.jti)
           /\ now < fromtimestamp(t.exp))
          => is_access_token_revoked(revoked_access_tokens', t.jti)]_vars

\* C24: a refresh that found its credential stored, active and not expired,
\* and then finds the owning user missing or disabled, fails with
\* InvalidCredential and leaves the store as it is: the presented credential
\* is not revoked, no credential row is created, no family is revoked
C24_MissingUserLeavesStore ==
    [][\A p \in Procs :
          (pc[p] = "rotate" /\ users[req[p].sub] # "active" /\ RefreshRotate(p))
          => /\ last' = Result("refresh", "User not found or disabled", 0)
             /\ ErrorKind(last'.out) = "InvalidCredential"
             /\ refresh_tokens' = refresh_tokens
             /\ issued' = issued /\ rotated' = rotated /\ nextId' = nextId
             /\ pc'[p] = "idle"]_vars

\* C24 witness: a refresh failed on the user check
C24_Witness ==
    /\ last = Result("refresh", "User not found or disabled", 0)
    /\ \E u \in Users : users[u] = "deleted"

\* C25: a refresh with a token that fails decoding, or that decodes with a
\* type other than refresh (an access token), fails with InvalidCredential
\* before the store is touched: no credential row is changed, revoked or
\* created, and nothing is issued
C25_UndecodableTouchesNothing ==
    [][\A p \in Procs, t \in Presentable :
          ((~decode_token(t, now) \/ t.type # "refresh") /\ RefreshLookup(p, t))
          => /\ last'.op = "refresh"
             /\ last'.out = IF ~decode_token(t, now) THEN "Invalid refresh token"
                            ELSE "Invalid token type"
             /\ ErrorKind(last'.out) = "InvalidCredential"
             /\ refresh_tokens' = refresh_tokens
             /\ revoked_access_tokens' = revoked_access_tokens
             /\ issued' = issued /\ nextId' = nextId
             /\ pc' = pc]_vars

\* C25 witness: an access token that decodes was presented to refresh and
\* refused for its type, with an active credential of its user stored
C25_Witness ==
    /\ last = Result("refresh", "Invalid token type", 0)
    /\ \E t \in AccessIssued : decode_token(t, now)
    /\ \E r \in refresh_tokens : r.revoked_at = None

\* C26: logout is idempotent on the access credential: every call of
\* logout_user with an access credential id, after or during other calls with
\* the same id, succeeds and leaves exactly one revoked record for the id,
\* with the expiry the first call recorded
C26_LogoutIdempotent ==
    [][\A p \in Procs :
          (lreq[p].jti # None /\ logout_commit(p))
          => /\ last' = Result("logout_user", "ok", Val(lreq[p].jti))
             /\ Cardinality({r \in revoked_access_tokens' :
                               r.jti = Val(lreq[p].jti)}) = 1
             /\ \A r \in revoked_access_tokens :
                   r.jti = Val(lreq[p].jti) => r \in revoked_access_tokens']_vars

\* C27: a write request without an Idempotency-Key runs the handler
\* unconditionally: it is never answered Conflict or a cached response, and
\* from its start to the end of its handler it creates and changes no
\* idempotency record
C27_NoKeyNoCoordination ==
    [][/\ \A p \in Procs, u \in IdemUsers :
             (ipc[p] = "idle" /\ create_workout_session(p, u, NoKey))
             => /\ ipc'[p] = "handler"
                /\ ires'[p].status # 409 /\ ~IsCached(ires'[p])
                /\ idempotency_keys' = idempotency_keys
       /\ \A p \in Procs :
             (ipc[p] = "handler" /\ ireq[p][2] = NoKey /\ ipc'[p] # ipc[p])
             => /\ ipc'[p] = "idle"
                /\ idempotency_keys' = idempotency_keys]_vars

\* C27 witness: a request without a key is in its handler while the record of
\* a key of the same user is processing
C27_Witness ==
    \E p \in Procs, k \in Keys :
        /\ ipc[p] = "handler" /\ ireq[p][2] = NoKey
        /\ RecordIn(ireq[p][1], k, "processing")

\* ------------------------------------------------------------- janitor claims
\* C28: a failure raised by a step of one pass of the janitor does not end the
\* loop and is not propagated: after every failed pass another pass is
\* eventually started
C28_JanitorGoesOn == jerr ~> (jpc = "sweep")

\* C28 witness: a pass has begun after a pass that failed
C28_Witness == jerr /\ jpc = "sweep"

\* --------------------------------------------------------------- sweep claims
\* the rows a pass of the janitor would delete from the stores as they are
SweepDeletes(keys, revoked, t) ==
    (keys \ cleanup_expired_idempotency_keys(keys, t))
        \cup (revoked \ cleanup_expired_revoked_tokens(revoked, t))

\* C29: the sweep is idempotent: a second pass of the janitor directly after a
\* pass, with no row newly expired in between (the clock has not moved), finds
\* no row to delete in the idempotency table or the revocation list, and the
\* pass writes nothing to the refresh credentials; all three stores stay as
\* the first pass left them
C29_SweepIdempotent ==
    [][cleanup_task
         => /\ SweepDeletes(idempotency_keys', revoked_access_tokens', now') = {}
            /\ cleanup_expired_idempotency_keys(idempotency_keys', now') = idempotency_keys'
            /\ cleanup_expired_revoked_tokens(revoked_access_tokens', now') =
                  revoked_access_tokens'
            /\ refresh_tokens' = refresh_tokens]_vars

\* C29 witness: a pass has deleted the revocation row of a logout and the
\* expired record of a completed keyed request while the refresh credentials hold rows, and a
\* pass from this state would delete nothing
C29_Witness ==
    /\ last = Result("logout", "ok", last.id)
    /\ ~is_access_token_revoked(revoked_access_tokens, last.id)
    /\ \E u \in IdemUsers, k \in Keys : stored[<<u, k>>] # None
    /\ idempotency_keys = {}
    /\ refresh_tokens # {}
    /\ SweepDeletes(idempotency_keys, revoked_access_tokens, now) = {}

\* ---------------------------------------------------------- logout claims
\* a call of logout_user whose refresh token could not be decoded commits
SwallowedCommit(p) == lreq[p].swallowed /\ logout_commit(p)

\* C30: a call of logout_user with a refresh token that cannot be decoded
\* does not fail: the call goes on to its commit with no refresh credential
\* pending or changed, the commit succeeds, and the revoked record the call
\* added for its access credential id is in the list after the commit
C30_UndecodableLogoutSucceeds ==
    [][\A p \in Procs :
          /\ (\E j \in LogoutJtis, r \in LogoutRefreshTokens :
                 \E e \in LogoutExpiries(j) :
                    DecodeFails(r, now) /\ logout_user(p, j, e, r))
             => /\ lpc'[p] = "commit"
                /\ lreq'[p].revoked = {}
                /\ refresh_tokens' = refresh_tokens
          /\ SwallowedCommit(p)
             => /\ last'.out = "ok"
                /\ refresh_tokens' = refresh_tokens
                /\ lreq[p].added \subseteq revoked_access_tokens']_vars

\* ---------------------------------------------------------- storage claims
\* a statement of the refresh of flow p failed for the first time: no flow of
\* refresh_tokens is ever at a second attempt of a step
FirstStorageFailure(p) ==
    \/ \E t \in Presentable : RefreshLookupRaises(p, t)
    \/ RefreshRotateRaises(p)

\* C31: a storage failure during refresh (look-up, revoke or insert of the
\* new row) is retried once at the same step, by re-reading the credential row
\* and branching on its state: the first failure of a step is not what the
\* caller gets, the generic internal failure is returned only after the retry
\* failed as well
C31_StorageFailureRetriedOnce ==
    [][\A p \in Procs :
          FirstStorageFailure(p)
             => last' # Result("refresh", generic_error_handler, 0)]_vars

\* ----------------------------------------------------------- family claims
\* the families of the stored credentials
StoredFamilies == {r.family_id : r \in refresh_tokens}

\* C32: once a family-wide revocation has taken effect (every stored
\* credential of the family is revoked), no credential of the family is
\* active at any later time, whatever refresh calls of the family were in
\* flight when the revocation ran
C32_RevokedFamilyStaysDead ==
    [][\A f \in StoredFamilies :
          FamilyRevoked(refresh_tokens, f) => FamilyRevoked(refresh_tokens', f)]_vars

\* the credentials of family f that are not revoked
ActiveOfFamily(rows, f) == {r \in rows : r.family_id = f /\ ~is_revoked(r)}

\* C33: in every reachable state each family holds at most one refresh
\* credential with a null revocation timestamp
C33_OneActivePerFamily ==
    \A f \in StoredFamilies : Cardinality(ActiveOfFamily(refresh_tokens, f)) <= 1

\* the rows a revocation of family f must leave as they are: the rows of the
\* other families and the rows of f that are revoked already
OutsideRevocation(rows, f) == {r \in rows : r.family_id # f \/ is_revoked(r)}

\* the families of the rows the session of a call of logout_user revokes
PendingFamilies(p) ==
    {r.family_id : r \in {x \in refresh_tokens : x.token_hash \in lreq[p].revoked}}

\* C34: family revocation changes only the active credentials of the named
\* family: when revoke_token_family(F) takes effect, from reuse handling or
\* from logout, every credential of every other family and every credential
\* of F that was revoked already is left as it was, revocation timestamp
\* included
C34_RevocationFrame ==
    [][\A p \in Procs :
          /\ \A t \in Unstored :
                (/\ RevokesFamily(RefreshOutcome(refresh_tokens, t, now))
                 /\ RefreshLookup(p, t))
                => OutsideRevocation(refresh_tokens, t.family) \subseteq refresh_tokens'
          /\ logout_commit(p)
             => \A f \in PendingFamilies(p) :
                   OutsideRevocation(refresh_tokens, f) \subseteq refresh_tokens']_vars

\* ----------------------------------------------------------- record claims
\* the record with the key of row r in rows (a set of at most one row)
SameKey(rows, r) == {s \in rows : s.key = r.key}

\* C35: the status of an idempotency record only moves from processing to
\* completed or to failed: a completed record keeps its status and its cached
\* status code and body until it is deleted, a failed record is left only by
\* deletion, and a record appears only as the processing record a Begin
\* inserts (Complete and Fail for a key without record create none)
C35_StatusMovesFromProcessingOnly ==
    [][/\ \A r \in idempotency_keys : \A s \in SameKey(idempotency_keys', r) :
             r.status \in {"completed", "failed"} => s = r
       /\ \A s \in idempotency_keys' :
             SameKey(idempotency_keys, s) = {}
                => /\ s.status = "processing"
                   /\ \E p \in Procs : ipc[p] = "insert" /\ ipc'[p] = "handler"]_vars

\* ------------------------------------------------------------ scope claims
\* the records of user u, and the records of everybody else
OwnRows(rows, u) == {r \in rows : r.user_id = u}
OtherRows(rows, u) == {r \in rows : r.user_id # u}

\* flow p takes a step of a write request of user u: Begin (the read, the
\* insert), Complete or Fail
ActsFor(p, u) ==
    \/ \E k \in Keys : create_workout_session(p, u, k)
    \/ /\ ireq[p][1] = u
       /\ \/ BeginInsert(p)
          \/ \E b \in Bodies : HandlerReturns(p, 201, b)
          \/ HandlerRaises(p)

\* C36: idempotency records are scoped per user: for two users and the same
\* key string, Begin, Complete and Fail of one user never read or change the
\* record of the other: a step for user u leaves the records of the other
\* users as they are, the look-up for (u, k) finds records of u only, and a
\* Begin of a user without a record of their own goes on to the insert and is
\* told to proceed, whatever the other user did with the key
C36_ScopedPerUser ==
    [][\A p \in Procs, u \in ScopeUsers :
          /\ ActsFor(p, u)
             => OtherRows(idempotency_keys', u) = OtherRows(idempotency_keys, u)
          /\ \A k \in Keys :
                FindByKey(idempotency_keys, u, k) \subseteq OwnRows(idempotency_keys, u)
          /\ \A k \in Keys :
                (create_workout_session(p, u, k) /\ OwnRows(idempotency_keys, u) = {})
                => ipc'[p] = "insert"
          /\ (ireq[p][1] = u /\ BeginInsert(p) /\ OwnRows(idempotency_keys, u) = {})
             => ires'[p] = Proceed]_vars

\* C36 witness: a flow of one user was told to proceed and is in its handler
\* while the other user's record of the same key string is completed
C36_Witness ==
    \E p \in Procs, u \in ScopeUsers, v \in ScopeUsers, k \in Keys :
       /\ u # v
       /\ ipc[p] = "handler" /\ ireq[p] = <<u, k>> /\ ires[p] = Proceed
       /\ \E r \in FindByKey(idempotency_keys, u, k) : r.status = "processing"
       /\ \E r \in FindByKey(idempotency_keys, v, k) :
             r.status = "completed" /\ r.user_id = v

\* ------------------------------------------------------------ owner claims
\* C37: every registration or login starts a family whose identifier no
\* stored credential uses, every rotation stores its new credential in the
\* family of the presented token, and all stored credentials that share a
\* family identifier have the same owning user
C37_FamilyHasOneOwner ==
    [][/\ (\E u \in Accounts : register_user(u) \/ login_user(u))
          => /\ NewRows # {}
             /\ \A r \in NewRows : r.family_id \notin StoredFamilies
       /\ \A p \in Procs :
             (RefreshRotate(p) /\ user_is_active(req[p].sub))
             => /\ NewRows # {}
                /\ \A r \in NewRows : r.family_id = req[p].family
       /\ \A r \in refresh_tokens', s \in refresh_tokens' :
             r.family_id = s.family_id => r.user_id = s.user_id]_vars

\* C37 witness: two accounts hold credentials, and one family holds a rotated
\* credential and its successor
C37_Witness ==
    /\ \E r \in refresh_tokens, s \in refresh_tokens : r.user_id # s.user_id
    /\ \E r \in refresh_tokens, s \in refresh_tokens :
          /\ r.family_id = s.family_id
          /\ is_revoked(r) /\ ~is_revoked(s)
          /\ <<RowJti(r), RowJti(s)>> \in rotated

TypeOK ==
    /\ now \in 0..MaxTime
    /\ nextId \in 1..(MaxIds + 1)
====
